---- MODULE Spec2Model ----
(***************************************************************************)
(* Arduino filament extruder controller (Sources/HEPLAST_14_25.ino).       *)
(*                                                                         *)
(* The sketch is a single-threaded polling loop: setup() runs once, then   *)
(* loop() runs to completion over and over.  One step of the model is one  *)
(* complete pass of loop().  The state is the sketch's globals, the values *)
(* last written to each output pin, the text last written to LCD line 2,   *)
(* the number of unlock notifications sent on Serial, and the locals of    *)
(* the last pass (potVal, buttonState, rpmTarget, motorPWM).               *)
(*                                                                         *)
(* Time: `now' is the value returned by the most recent call of millis().  *)
(* millis() is only called in the locked branch; each locked pass reads a  *)
(* value that is later than the previous reading by one of TickElapsed.    *)
(* Both calls of millis() in one pass (lines 129 and 134) are a few        *)
(* instructions apart and are taken to return the same millisecond.        *)
(***************************************************************************)
EXTENDS Integers, Sequences, FiniteSets, TLC

(* ---- Arduino levels --------------------------------------------------- *)
LOW == 0
HIGH == 1
Levels == {LOW, HIGH}

(* ---- Configuration constants (lines 58-62) ---------------------------- *)
targetTempBuiltin == 20
roomTempMockBuiltin == 27
potZeroThreshold == 20
maxBreathBrightness == 50
fadeDelay == 80
initialFadeAmount == 2

(* analogRead() range and the map() output ranges of lines 102-103 *)
RAW_MAX == 1023
SPEED_MAX == 300
DUTY_MAX == 255

(* delay(1000) in setup(), delay(20) at the end of loop() *)
SetupDelay == 1000
LoopDelay == 20

(* ---- Bounds of the model ---------------------------------------------- *)
(* last clock reading explored by Spec: long enough for the breathing      *)
(* animation to climb to maxBreathBrightness and come back down to 0       *)
MaxClock == 5000

(* SpecBreath runs without end on a millis() counter of reduced width: it  *)
(* wraps after this many fade periods instead of after 2^32 ms             *)
ClockWrapPeriods == 16

(* how far outside 0..RAW_MAX the readings handed to the input sampler by  *)
(* SpecSampler go, on either side                                          *)
SamplerSlack == 8

(* last clock reading explored by SpecWrites *)
MaxClockWrites == 1240

(* last clock reading explored by SpecTwoRuns *)
MaxClockTwoRuns == 1400

(* raw potentiometer readings tried by Spec: both ends of the range, both  *)
(* sides of potZeroThreshold, and mid-range                                *)
RawSamples == {0, potZeroThreshold - 1, potZeroThreshold, 500, RAW_MAX}

(* readings handed to the input sampler by SpecSampler: every value that   *)
(* analogRead() returns, and a few on either side of that range            *)
SamplerInputs == (0 - SamplerSlack)..(RAW_MAX + SamplerSlack)

(* raw readings tried by SpecTwoRuns, for each of the two runs *)
TwoRunsRaw == {0, RAW_MAX}

(* time between two successive readings of millis() tried by Spec: less    *)
(* than a fade period (two of them make exactly one), and more than two    *)
(* fade periods                                                            *)
TickElapsed == {2 * LoopDelay, 2 * fadeDelay + 2 * LoopDelay}

(* the value at which the millis() counter of SpecBreath wraps to 0 *)
ClockWrap == ClockWrapPeriods * fadeDelay

(* build-time temperature configurations explored: the built-in pair and   *)
(* the pairs obtained by exchanging / equating the two values              *)
TempValues == {targetTempBuiltin, roomTempMockBuiltin}

VARIABLES
    targetTemp,      \* const float targetTemp (build-time configuration)
    roomTempMock,    \* const float roomTempMock (build-time configuration)
    systemReady,     \* bool systemReady
    fadeValue,       \* int fadeValue
    fadeAmount,      \* int fadeAmount
    prevFadeMillis,  \* unsigned long prevFadeMillis
    now,             \* last value returned by millis()
    potVal,          \* loop() local: analogRead(POT_SPEED)
    buttonState,     \* loop() local: digitalRead(BUTTON_PIN)
    rpmTarget,       \* loop() local, in hundredths (before the / 100.0)
    motorPWM,        \* loop() local
    ledReady,        \* duty last written to LED_READY
    heaterLed,       \* level last written to HEATER_LED
    relayPin,        \* level last written to RELAY_PIN
    motorEnb,        \* duty last written to MOTOR_ENB
    motorIn3,        \* level last written to MOTOR_IN3
    motorIn4,        \* level last written to MOTOR_IN4
    lcdLine2,        \* text last printed on LCD row 1
    unlockedCount,   \* number of ">> SYSTEM UNLOCKED <<" lines sent
    fadeUpdated,     \* did the last pass take the animation branch (line 129)
    lastBranch,      \* code that produced this state: setup / locked / unlocked
    pc,              \* SpecWrites: 0 between passes, else index of the next pin write
    prevOut,         \* SpecWrites: the power outputs as the current pass found them
    other            \* SpecTwoRuns: the state of a second run of the same build

vars == <<targetTemp, roomTempMock, systemReady, fadeValue, fadeAmount,
          prevFadeMillis, now, potVal, buttonState, rpmTarget, motorPWM,
          ledReady, heaterLed, relayPin, motorEnb, motorIn3, motorIn4,
          lcdLine2, unlockedCount, fadeUpdated, lastBranch, pc, prevOut,
          other>>

(* the variables that only the write-level specification changes *)
writeVars == <<pc, prevOut>>

(* ---- Pure helpers ----------------------------------------------------- *)

(* C integer division truncates toward zero *)
CDiv(a, b) ==
    IF (a >= 0 /\ b > 0) \/ (a <= 0 /\ b < 0)
    THEN (IF a >= 0 THEN a ELSE -a) \div (IF b >= 0 THEN b ELSE -b)
    ELSE -((IF a >= 0 THEN a ELSE -a) \div (IF b >= 0 THEN b ELSE -b))

(* the product of map() computed in a 16-bit int instead of a long *)
Map_Int16(x, in_min, in_max, out_min, out_max) ==
    LET p == ((x - in_min) * (out_max - out_min)) % 65536
        q == IF p >= 32768 THEN p - 65536 ELSE p
    IN  CDiv(q, in_max - in_min) + out_min

(* map() with the division done before the multiplication *)
Map_DivideFirst(x, in_min, in_max, out_min, out_max) ==
    CDiv(x - in_min, in_max - in_min) * (out_max - out_min) + out_min

(* Arduino map(): (x - in_min) * (out_max - out_min) / (in_max - in_min) + out_min *)
Map(x, in_min, in_max, out_min, out_max) ==
    CDiv((x - in_min) * (out_max - out_min), in_max - in_min) + out_min

(* the duty mapped onto 256 levels instead of 0..255 *)
DriveDuty_256Levels(pot) == Map(pot, 0, RAW_MAX, 0, DUTY_MAX + 1)

(* line 103: int motorPWM = map(potVal, 0, 1023, 0, 255) *)
DriveDuty(pot) == Map(pot, 0, RAW_MAX, 0, DUTY_MAX)

(* line 102: map(potVal, 0, 1023, 0, 300), the numerator of rpmTarget *)
TargetSpeed100(pot) == Map(pot, 0, RAW_MAX, 0, SPEED_MAX)

(* line 129 on the counter that wraps at ClockWrap: the unsigned            *)
(* subtraction is taken modulo the width of the counter                    *)
FadeDueWrapped(t, prev) == ((t - prev) % ClockWrap) >= fadeDelay

(* the test of line 129 with a strict comparison *)
FadeDue_Strict(t, prev) ==
    LET d == t - prev
    IN  IF d < 0 THEN TRUE ELSE d > fadeDelay

(* line 129: millis() - prevFadeMillis >= fadeDelay.  The subtraction is    *)
(* in 32-bit unsigned long: a negative difference wraps to a value of at   *)
(* least 2^31, which is >= fadeDelay.                                      *)
FadeDue(t, prev) ==
    LET d == t - prev
    IN  IF d < 0 THEN TRUE ELSE d >= fadeDelay

(* the brightness held at the upper bound instead of reflected *)
FadeStep_Saturate(fv, fa) ==
    LET nv == fv + fa
    IN  <<IF nv > maxBreathBrightness THEN maxBreathBrightness ELSE nv, fa>>

(* the step reflected at the upper bound only *)
FadeStep_TopOnly(fv, fa) ==
    LET nv == fv + fa
    IN  <<nv, IF nv >= maxBreathBrightness THEN -fa ELSE fa>>

(* the reflection test with strict comparisons *)
FadeStep_StrictBounds(fv, fa) ==
    LET nv == fv + fa
    IN  <<nv, IF nv < 0 \/ nv > maxBreathBrightness THEN -fa ELSE fa>>

(* lines 130-132: step the brightness, reflect the step at either bound *)
FadeStep(fv, fa) ==
    LET nv == fv + fa
    IN  <<nv, IF nv <= 0 \/ nv >= maxBreathBrightness THEN -fa ELSE fa>>

(* the arm condition without the pot test *)
ArmCondition_ButtonOnly(pot, btn) == btn = LOW

(* lines 137 and 140: the arm condition *)
ArmCondition(pot, btn) == pot < potZeroThreshold /\ btn = LOW

(* heater demand with a non-strict comparison *)
HeaterDemand_NonStrict(room, target) == room <= target

(* line 171: heater demand *)
HeaterDemand(room, target) == room < target

(* the locked branch without the second print of line 144 *)
LockedPhrase_NoOverwrite(pot, btn) ==
    IF pot < potZeroThreshold THEN "Press Button..." ELSE "Set pot to zero"

(* lines 137-150: text left on LCD row 1 by the locked branch *)
LockedPhrase(pot, btn) ==
    IF pot < potZeroThreshold
    THEN (IF btn = LOW THEN "System Active" ELSE "Press Button...")
    ELSE "Set pot to zero"

(* ---- setup() ---------------------------------------------------------- *)
Init ==
    /\ targetTemp \in TempValues
    /\ roomTempMock \in TempValues
    /\ systemReady = FALSE
    /\ fadeValue = 0
    /\ fadeAmount = initialFadeAmount
    /\ prevFadeMillis = 0
    /\ now = SetupDelay
    /\ potVal = 0
    /\ buttonState = HIGH
    /\ rpmTarget = 0
    /\ motorPWM = 0
    /\ ledReady = 0
    /\ heaterLed = LOW
    /\ relayPin = LOW
    /\ motorEnb = 0
    /\ motorIn3 = LOW
    /\ motorIn4 = LOW
    /\ lcdLine2 = ""
    /\ unlockedCount = 0
    /\ fadeUpdated = FALSE
    /\ lastBranch = "setup"
    /\ pc = 0
    /\ prevOut = [relay |-> LOW, heater |-> LOW, enb |-> 0, in3 |-> LOW, in4 |-> LOW]
    /\ other = [systemReady |-> FALSE, fadeValue |-> 0,
                fadeAmount |-> initialFadeAmount, prevFadeMillis |-> 0,
                now |-> SetupDelay, potVal |-> 0, buttonState |-> HIGH,
                ledReady |-> 0,
                out |-> [relay |-> LOW, heater |-> LOW, enb |-> 0,
                         in3 |-> LOW, in4 |-> LOW],
                sameEntry |-> FALSE, pastDiffered |-> FALSE]

(* ---- loop() ----------------------------------------------------------- *)

(* lines 101-104: sampling, common to both branches *)
Sample(pot, btn) ==
    /\ potVal' = pot
    /\ buttonState' = btn
    /\ rpmTarget' = TargetSpeed100(pot)
    /\ motorPWM' = DriveDuty(pot)

(* the locked pass without the latch of line 142 *)
LockedLed_NoLatch(armed, due, fv, old) ==
    IF due THEN fv ELSE old

(* lines 133 and 142: duty on LED_READY after a locked pass.  `old' is the *)
(* duty already on the pin, `fv' the brightness after lines 130-132.       *)
LockedLed(armed, due, fv, old) ==
    IF armed THEN maxBreathBrightness
    ELSE IF due THEN fv ELSE old

(* the notification printed whenever the pot is near zero *)
LockedNotifications_PotOnly(pot, btn) ==
    IF pot < potZeroThreshold THEN 1 ELSE 0

(* line 145: number of unlock notifications printed by a locked pass *)
LockedNotifications(pot, btn) == IF ArmCondition(pot, btn) THEN 1 ELSE 0

(* the pass that arms already sets the direction forward *)
LockedActuators_ForwardWhenArmed(pwm, armed) ==
    [relay |-> LOW, heater |-> LOW, enb |-> 0,
     in3 |-> IF armed THEN HIGH ELSE LOW, in4 |-> LOW]

(* the pass that arms already drives the motor from the pot *)
LockedActuators_DriveWhenArmed(pwm, armed) ==
    IF armed
    THEN [relay |-> LOW, heater |-> LOW, enb |-> pwm, in3 |-> HIGH, in4 |-> LOW]
    ELSE [relay |-> LOW, heater |-> LOW, enb |-> 0, in3 |-> LOW, in4 |-> LOW]

(* lines 152-157: power outputs at the end of a locked pass; they do not   *)
(* depend on the duty computed from the pot nor on the arm condition       *)
LockedActuators(pwm, armed) ==
    [relay |-> LOW, heater |-> LOW, enb |-> 0, in3 |-> LOW, in4 |-> LOW]

(* the direction lines exchanged *)
UnlockedActuators_Reversed(pwm, room, target) ==
    [in3 |-> LOW, in4 |-> HIGH, enb |-> pwm,
     relay |-> IF HeaterDemand(room, target) THEN HIGH ELSE LOW,
     heater |-> IF HeaterDemand(room, target) THEN HIGH ELSE LOW]

(* the heater indicator never switched on *)
UnlockedActuators_LedOff(pwm, room, target) ==
    [in3 |-> HIGH, in4 |-> LOW, enb |-> pwm,
     relay |-> IF HeaterDemand(room, target) THEN HIGH ELSE LOW,
     heater |-> LOW]

(* lines 165-177: power outputs at the end of an unlocked pass *)
UnlockedActuators(pwm, room, target) ==
    [in3 |-> HIGH, in4 |-> LOW, enb |-> pwm,
     relay |-> IF HeaterDemand(room, target) THEN HIGH ELSE LOW,
     heater |-> IF HeaterDemand(room, target) THEN HIGH ELSE LOW]

(* an unlocked pass that disarms when the button is pressed *)
UnlockedReady_ButtonDisarms(pot, btn) == btn = HIGH

(* lines 159-178: systemReady after an unlocked pass; the branch has no    *)
(* assignment to it                                                        *)
UnlockedReady(pot, btn) == TRUE

(* the five power outputs take the values of record `a' *)
Apply(a) ==
    /\ relayPin' = a.relay
    /\ heaterLed' = a.heater
    /\ motorEnb' = a.enb
    /\ motorIn3' = a.in3
    /\ motorIn4' = a.in4

(* an unlocked pass that keeps running the breathing animation *)
UnlockedFade_StillBreathing(fv, fa) == FadeStep(fv, fa)

(* lines 159-178: fadeValue and fadeAmount after an unlocked pass; the     *)
(* branch has no assignment to either                                      *)
UnlockedFade(fv, fa) == <<fv, fa>>

(* the duty moved one step from the previous duty toward the pot's *)
UnlockedDuty_Ramp(pwm, oldDuty) ==
    IF pwm > oldDuty THEN oldDuty + 1
    ELSE IF pwm < oldDuty THEN oldDuty - 1 ELSE pwm

(* line 168: the duty written by an unlocked pass is the one computed from *)
(* this pass's reading, whatever duty the previous pass left on the pin    *)
UnlockedDuty(pwm, oldDuty) == pwm

(* lines 101-150: a pass of loop() with systemReady == false up to the     *)
(* actuator writes; millis() returns t and `due' is the test of line 129   *)
LockedHead(pot, btn, t, due) ==
    LET stepped == FadeStep(fadeValue, fadeAmount)
        armed == ArmCondition(pot, btn)
    IN  /\ ~systemReady
        /\ now' = t
        /\ Sample(pot, btn)
        /\ fadeUpdated' = due
        /\ fadeValue' = IF due THEN stepped[1] ELSE fadeValue
        /\ fadeAmount' = IF due THEN stepped[2] ELSE fadeAmount
        /\ prevFadeMillis' = IF due THEN t ELSE prevFadeMillis
        /\ systemReady' = armed
        /\ ledReady' = LockedLed(armed, due, fadeValue', ledReady)
        /\ lcdLine2' = LockedPhrase(pot, btn)
        /\ unlockedCount' = unlockedCount + LockedNotifications(pot, btn)
        /\ UNCHANGED <<targetTemp, roomTempMock>>

(* lines 101-158: one pass of loop() with systemReady == false, in which   *)
(* millis() returns now + dt                                               *)
LockedState(pot, btn, dt) ==
    /\ LockedHead(pot, btn, now + dt, FadeDue(now + dt, prevFadeMillis))
    /\ Apply(LockedActuators(DriveDuty(pot), ArmCondition(pot, btn)))
    /\ lastBranch' = "locked"
    /\ UNCHANGED writeVars

(* lines 101-126 and 159-163: a pass of loop() with systemReady == true up *)
(* to the actuator writes                                                  *)
UnlockedHead(pot, btn) ==
    /\ systemReady
    /\ Sample(pot, btn)
    /\ systemReady' = UnlockedReady(pot, btn)
    /\ ledReady' = maxBreathBrightness
    /\ lcdLine2' = "System Active"
    /\ fadeValue' = UnlockedFade(fadeValue, fadeAmount)[1]
    /\ fadeAmount' = UnlockedFade(fadeValue, fadeAmount)[2]
    /\ fadeUpdated' = FALSE
    /\ UNCHANGED <<targetTemp, roomTempMock, prevFadeMillis, now, unlockedCount>>

(* lines 101-126 and 159-178: one pass of loop() with systemReady == true *)
UnlockedState(pot, btn) ==
    /\ UnlockedHead(pot, btn)
    /\ Apply(UnlockedActuators(UnlockedDuty(DriveDuty(pot), motorEnb),
                               roomTempMock, targetTemp))
    /\ lastBranch' = "unlocked"
    /\ UNCHANGED writeVars

(* loop() over the sampled inputs *)
loop ==
    \E pot \in RawSamples, btn \in Levels :
        \/ \E dt \in TickElapsed :
              now + dt <= MaxClock /\ LockedState(pot, btn, dt) /\ UNCHANGED other
        \/ UnlockedState(pot, btn) /\ UNCHANGED other

Next == loop

Spec == Init /\ [][Next]_vars

(* ---- the input sampler on its own ------------------------------------- *)

(* setup() of the build with the built-in temperatures of lines 58-59 *)
InitBuiltin ==
    /\ Init
    /\ targetTemp = targetTempBuiltin
    /\ roomTempMock = roomTempMockBuiltin

(* lines 101-104 applied to the readings pot and btn, nothing else run *)
InputSampler(pot, btn) ==
    /\ Sample(pot, btn)
    /\ lastBranch' = "sampler"
    /\ UNCHANGED <<targetTemp, roomTempMock, systemReady, fadeValue, fadeAmount,
                   prevFadeMillis, now, ledReady, heaterLed, relayPin, motorEnb,
                   motorIn3, motorIn4, lcdLine2, unlockedCount, fadeUpdated,
                   pc, prevOut, other>>

sampler ==
    \E pot \in SamplerInputs, btn \in Levels : InputSampler(pot, btn)

NextSampler == sampler

SpecSampler == InitBuiltin /\ [][NextSampler]_vars

(* ---- loop() running without end --------------------------------------- *)

(* lines 101-158: one pass of loop() with systemReady == false, in which   *)
(* the wrapping counter has advanced by dt                                 *)
LockedStateWrapped(pot, btn, dt) ==
    LET t == (now + dt) % ClockWrap
    IN  /\ LockedHead(pot, btn, t, FadeDueWrapped(t, prevFadeMillis))
        /\ Apply(LockedActuators(DriveDuty(pot), ArmCondition(pot, btn)))
        /\ lastBranch' = "locked"
        /\ UNCHANGED writeVars

loopBreath ==
    \E pot \in RawSamples, btn \in Levels :
        \/ \E dt \in TickElapsed :
              LockedStateWrapped(pot, btn, dt) /\ UNCHANGED other
        \/ UnlockedState(pot, btn) /\ UNCHANGED other

NextBreath == loopBreath

(* the Arduino core calls loop() again as soon as it returns, for ever *)
SpecBreath == InitBuiltin /\ [][NextBreath]_vars /\ WF_vars(NextBreath)

(* ---- loop() one pin write at a time ----------------------------------- *)

(* the five power outputs as they are now *)
Outputs ==
    [relay |-> relayPin, heater |-> heaterLed, enb |-> motorEnb,
     in3 |-> motorIn3, in4 |-> motorIn4]

(* the unlocked branch writing the duty before the direction lines *)
UnlockedOrder_DutyFirst == <<"enb", "in3", "in4", "relay", "heater">>

(* lines 153-157: the order in which the locked branch writes the pins *)
LockedOrder == <<"relay", "heater", "enb", "in3", "in4">>

(* lines 166-176: the order in which the unlocked branch writes the pins *)
UnlockedOrder == <<"in3", "in4", "enb", "relay", "heater">>

(* one digitalWrite() / analogWrite(): pin `name' takes value v *)
WritePin(name, v) ==
    /\ relayPin' = IF name = "relay" THEN v ELSE relayPin
    /\ heaterLed' = IF name = "heater" THEN v ELSE heaterLed
    /\ motorEnb' = IF name = "enb" THEN v ELSE motorEnb
    /\ motorIn3' = IF name = "in3" THEN v ELSE motorIn3
    /\ motorIn4' = IF name = "in4" THEN v ELSE motorIn4

(* lines 101-150 of a pass entered with systemReady == false *)
BeginLocked(pot, btn, dt) ==
    /\ pc = 0
    /\ now + dt <= MaxClockWrites
    /\ LockedHead(pot, btn, now + dt, FadeDue(now + dt, prevFadeMillis))
    /\ lastBranch' = "locked"
    /\ prevOut' = Outputs
    /\ pc' = 1
    /\ UNCHANGED <<relayPin, heaterLed, motorEnb, motorIn3, motorIn4, other>>

(* lines 101-126 and 159-163 of a pass entered with systemReady == true *)
BeginUnlocked(pot, btn) ==
    /\ pc = 0
    /\ UnlockedHead(pot, btn)
    /\ lastBranch' = "unlocked"
    /\ prevOut' = Outputs
    /\ pc' = 1
    /\ UNCHANGED <<relayPin, heaterLed, motorEnb, motorIn3, motorIn4, other>>

(* the frame of a single pin write *)
WriteFrame ==
    /\ pc' = IF pc = 5 THEN 0 ELSE pc + 1
    /\ UNCHANGED <<targetTemp, roomTempMock, systemReady, fadeValue, fadeAmount,
                   prevFadeMillis, now, potVal, buttonState, rpmTarget, motorPWM,
                   ledReady, lcdLine2, unlockedCount, fadeUpdated, lastBranch,
                   prevOut, other>>

(* one of lines 153-157 *)
LockedWrite ==
    /\ pc \in 1..5
    /\ lastBranch = "locked"
    /\ WritePin(LockedOrder[pc], LockedActuators(motorPWM, systemReady)[LockedOrder[pc]])
    /\ WriteFrame

(* one of lines 166-168 and 172-173 or 175-176 *)
UnlockedWrite ==
    /\ pc \in 1..5
    /\ lastBranch = "unlocked"
    /\ WritePin(UnlockedOrder[pc],
                UnlockedActuators(UnlockedDuty(motorPWM, prevOut.enb),
                                  roomTempMock, targetTemp)[UnlockedOrder[pc]])
    /\ WriteFrame

loopWrites ==
    \/ \E pot \in RawSamples, btn \in Levels :
          \/ \E dt \in TickElapsed : BeginLocked(pot, btn, dt)
          \/ BeginUnlocked(pot, btn)
    \/ LockedWrite
    \/ UnlockedWrite

NextWrites == loopWrites

SpecWrites == Init /\ [][NextWrites]_vars

(* ---- two runs of loop() side by side ---------------------------------- *)

(* lines 101-178 as a function: the state of run r after one pass of       *)
(* loop() that reads pot and btn and, if it is LOCKED, reads the clock at  *)
(* r.now + dt                                                              *)
Pass(r, pot, btn, dt) ==
    IF ~r.systemReady
    THEN LET t == r.now + dt
             due == FadeDue(t, r.prevFadeMillis)
             stepped == FadeStep(r.fadeValue, r.fadeAmount)
             armed == ArmCondition(pot, btn)
             fv == IF due THEN stepped[1] ELSE r.fadeValue
         IN  [systemReady |-> armed,
              fadeValue |-> fv,
              fadeAmount |-> IF due THEN stepped[2] ELSE r.fadeAmount,
              prevFadeMillis |-> IF due THEN t ELSE r.prevFadeMillis,
              now |-> t, potVal |-> pot, buttonState |-> btn,
              ledReady |-> LockedLed(armed, due, fv, r.ledReady),
              out |-> LockedActuators(DriveDuty(pot), armed)]
    ELSE [systemReady |-> UnlockedReady(pot, btn),
          fadeValue |-> UnlockedFade(r.fadeValue, r.fadeAmount)[1],
          fadeAmount |-> UnlockedFade(r.fadeValue, r.fadeAmount)[2],
          prevFadeMillis |-> r.prevFadeMillis,
          now |-> r.now, potVal |-> pot, buttonState |-> btn,
          ledReady |-> maxBreathBrightness,
          out |-> UnlockedActuators(UnlockedDuty(DriveDuty(pot), r.out.enb),
                                    roomTempMock, targetTemp)]

(* the two runs enter a pass with the same systemReady, fadeValue,         *)
(* fadeAmount and prevFadeMillis                                           *)
SamePersistentState ==
    /\ other.systemReady = systemReady
    /\ other.fadeValue = fadeValue
    /\ other.fadeAmount = fadeAmount
    /\ other.prevFadeMillis = prevFadeMillis

(* something else differs between the two runs: the previous clock         *)
(* reading, the previous pot reading or the outputs left on the pins       *)
PastDiffers ==
    other.now # now \/ other.potVal # potVal \/ other.out # Outputs

(* the second run takes a pass with readings pot, btn and clock advance    *)
(* dt, while the first run takes one with potA, btnA and tA                *)
OtherPass(pot, btn, dt, potA, btnA, tA) ==
    LET r == Pass(other, pot, btn, dt)
        sameInputs == pot = potA /\ btn = btnA /\ (~systemReady => r.now = tA)
    IN  /\ r.now <= MaxClockTwoRuns
        /\ other' = [systemReady |-> r.systemReady, fadeValue |-> r.fadeValue,
                     fadeAmount |-> r.fadeAmount,
                     prevFadeMillis |-> r.prevFadeMillis, now |-> r.now,
                     potVal |-> r.potVal, buttonState |-> r.buttonState,
                     ledReady |-> r.ledReady, out |-> r.out,
                     sameEntry |-> SamePersistentState /\ sameInputs,
                     pastDiffered |-> PastDiffers]

(* both runs take one pass of loop(), each with its own readings *)
loopTwoRuns ==
    \E potA \in TwoRunsRaw, btnA \in Levels, dtA \in TickElapsed,
       potB \in TwoRunsRaw, btnB \in Levels, dtB \in TickElapsed :
        /\ \/ now + dtA <= MaxClockTwoRuns /\ LockedState(potA, btnA, dtA)
           \/ UnlockedState(potA, btnA)
        /\ OtherPass(potB, btnB, dtB, potA, btnA, now + dtA)

NextTwoRuns == loopTwoRuns

SpecTwoRuns == InitBuiltin /\ [][NextTwoRuns]_vars

TypeOK ==
    /\ systemReady \in BOOLEAN
    /\ fadeValue \in Int /\ fadeAmount \in Int
    /\ potVal \in 0..RAW_MAX
    /\ buttonState \in Levels
    /\ motorEnb \in 0..255 /\ ledReady \in 0..255
    /\ {heaterLed, relayPin, motorIn3, motorIn4} \subseteq Levels
    /\ lastBranch \in {"setup", "locked", "unlocked"}
(* ======================================================================= *)
(* Properties                                                              *)
(* ======================================================================= *)

(* the pass that produced the current state performed LOCKED -> ARMED *)
JustArmed == lastBranch = "locked" /\ systemReady

(* C1: in the state left by setup() and at the end of every pass that      *)
(* began LOCKED, motor duty is 0 and heater relay and heater indicator are *)
(* OFF, whatever the pot, button and clock readings were.                  *)
C1_InterlockSoundness ==
    lastBranch \in {"setup", "locked"} =>
        motorEnb = 0 /\ relayPin = LOW /\ heaterLed = LOW

(* a locked pass with the pot at full scale and the button held *)
C1_Witness ==
    /\ lastBranch = "locked" /\ ~systemReady
    /\ potVal = RAW_MAX /\ buttonState = LOW
    /\ motorEnb = 0 /\ relayPin = LOW /\ heaterLed = LOW

(* C2: a pass changes ArmState from LOCKED to ARMED if and only if in that *)
(* same pass the raw reading is below potZeroThreshold and the button      *)
(* reads LOW; nothing from earlier passes takes part.                      *)
C2_ArmConditionExact ==
    [][~systemReady =>
         (systemReady' <=> (potVal' < potZeroThreshold /\ buttonState' = LOW))]_vars

(* the arming pass: pot below the threshold, button pressed *)
C2_Witness ==
    JustArmed /\ potVal = potZeroThreshold - 1 /\ buttonState = LOW

(* C3: once systemReady is true it is true after every later pass.         *)
C3_NoDisarm == [][systemReady => systemReady']_vars

(* an unlocked pass with the pot at full scale and the button pressed *)
C3_Witness ==
    lastBranch = "unlocked" /\ systemReady /\ potVal = RAW_MAX /\ buttonState = LOW

(* C4 as stated: at every pass boundary the direction pair is forward      *)
(* (IN3 HIGH, IN4 LOW) when ARMED and stopped (both LOW) when LOCKED,      *)
(* the end of the arming pass included.                                    *)
C4_Original ==
    /\ systemReady => (motorIn3 = HIGH /\ motorIn4 = LOW)
    /\ ~systemReady => (motorIn3 = LOW /\ motorIn4 = LOW)

(* C4 amended: the direction pair follows the branch the pass took: it is  *)
(* forward at the end of every pass that began ARMED, and stopped after    *)
(* setup() and at the end of every pass that began LOCKED, the arming pass *)
(* included.                                                               *)
C4_DirectionFollowsBranch ==
    /\ lastBranch = "unlocked" => (motorIn3 = HIGH /\ motorIn4 = LOW)
    /\ lastBranch \in {"setup", "locked"} => (motorIn3 = LOW /\ motorIn4 = LOW)

(* the end of the arming pass: ARMED with the direction pair stopped *)
C4_Witness == JustArmed /\ motorIn3 = LOW /\ motorIn4 = LOW

(* C5: at the end of every pass that began ARMED the motor duty is         *)
(* trunc(raw * 255 / 1023) of that pass's raw reading and the direction is *)
(* forward; raw 0 gives 0 and raw 1023 gives 255.                          *)
C5_DutyTracksPot ==
    lastBranch = "unlocked" =>
        /\ motorEnb = (potVal * 255) \div 1023
        /\ motorIn3 = HIGH /\ motorIn4 = LOW
        /\ (potVal = 0 => motorEnb = 0)
        /\ (potVal = 1023 => motorEnb = 255)

(* an unlocked pass at mid-range, where the quotient is truncated *)
C5_Witness ==
    lastBranch = "unlocked" /\ potVal = 500 /\ motorEnb = 124
(* C6: at the end of every pass that began ARMED the heater relay is ON    *)
(* exactly when roomTempMock < targetTemp (strictly); two successive ARMED *)
(* passes leave the same relay state; and with the built-in temperatures   *)
(* (room 27, target 20) the relay is OFF on every ARMED pass.              *)
C6_HeaterDecision ==
    /\ [](lastBranch = "unlocked" =>
            /\ (relayPin = HIGH <=> roomTempMock < targetTemp)
            /\ (roomTempMock = 27 /\ targetTemp = 20 => relayPin = LOW))
    /\ [][lastBranch = "unlocked" /\ lastBranch' = "unlocked" =>
            relayPin' = relayPin]_vars

(* an unlocked pass of a build whose two temperatures are equal *)
C6_Witness ==
    lastBranch = "unlocked" /\ roomTempMock = targetTemp /\ relayPin = LOW

(* C7: after setup() and at the end of every pass, LOCKED or ARMED, the    *)
(* heater relay and the heater indicator hold the same level, for every    *)
(* configured pair of temperatures.                                        *)
C7_RelayLedLockstep == relayPin = heaterLed

(* an unlocked pass with the heater on *)
C7_Witness ==
    lastBranch = "unlocked" /\ relayPin = HIGH /\ heaterLed = HIGH

(* C8: fadeValue stays in [0, maxBreathBrightness]; an animation update    *)
(* with step +2 raises it by 2 and turns the step to -2 exactly when the   *)
(* new value is maxBreathBrightness; an update with step -2 lowers it by 2 *)
(* and turns the step to +2 exactly when the new value is 0.               *)
C8_TriangleWave ==
    /\ [](fadeValue \in 0..50)
    /\ [][fadeUpdated' =>
            /\ fadeAmount \in {2, -2}
            /\ (fadeAmount = 2 =>
                   /\ fadeValue' = fadeValue + 2
                   /\ fadeAmount' = IF fadeValue' = 50 THEN -2 ELSE 2)
            /\ (fadeAmount = -2 =>
                   /\ fadeValue' = fadeValue - 2
                   /\ fadeAmount' = IF fadeValue' = 0 THEN 2 ELSE -2)]_vars

(* the update that brings the brightness back down to 0 after a full wave *)
C8_Witness ==
    ~systemReady /\ fadeUpdated /\ fadeValue = 0 /\ fadeAmount = 2

(* C9: at the end of the arming pass and of every later pass, the duty on  *)
(* LED_READY is maxBreathBrightness (50), whatever fadeValue is.           *)
C9_StatusLatched == systemReady => ledReady = 50

(* the arming pass, taken while the animation was in mid-wave *)
C9_Witness ==
    JustArmed /\ fadeUpdated /\ fadeValue = 24 /\ ledReady = 50

(* C10: the unlock notification is printed exactly once in a run that      *)
(* arms: by the arming pass, by no pass that stays LOCKED and by no later  *)
(* ARMED pass.                                                             *)
C10_NotifiedOnce ==
    /\ [](unlockedCount = IF systemReady THEN 1 ELSE 0)
    /\ [][/\ (~systemReady /\ systemReady') => unlockedCount' = unlockedCount + 1
          /\ ~(~systemReady /\ systemReady') => unlockedCount' = unlockedCount]_vars

(* an ARMED pass after the arming pass: still one notification *)
C10_Witness ==
    lastBranch = "unlocked" /\ unlockedCount = 1
C12_SamplerMonotone ==
    [][(/\ lastBranch = "sampler" /\ lastBranch' = "sampler"
        /\ potVal \in 0..1023 /\ potVal' \in 0..1023
        /\ potVal < potVal')
       => (motorPWM <= motorPWM' /\ rpmTarget <= rpmTarget')]_vars

(* a reading just above one where both quotients were truncated *)
C12_Witness ==
    lastBranch = "sampler" /\ potVal = 501 /\ motorPWM = 124 /\ rpmTarget = 146
(* C13: the phrase on LCD row 1 at the end of a pass: "Set pot to zero"    *)
(* after a pass that began LOCKED with raw >= potZeroThreshold, whatever   *)
(* the button; "Press Button..." after a pass that began LOCKED with raw   *)
(* below the threshold and the button released; "System Active" after the *)
(* arming pass and after every pass that began ARMED.                      *)
C13_StatusPhrase ==
    /\ (lastBranch = "locked" /\ potVal >= 20) => lcdLine2 = "Set pot to zero"
    /\ (lastBranch = "locked" /\ potVal < 20 /\ buttonState = HIGH)
          => lcdLine2 = "Press Button..."
    /\ (JustArmed \/ lastBranch = "unlocked") => lcdLine2 = "System Active"

(* a locked pass with the pot up and the button pressed: no transition *)
C13_Witness ==
    /\ lastBranch = "locked" /\ ~systemReady
    /\ potVal = 500 /\ buttonState = LOW /\ lcdLine2 = "Set pot to zero"

(* C14 as stated, the part a single state refutes: once ARMED, fadeValue   *)
(* equals maxBreathBrightness.                                             *)
C14_Original == systemReady => fadeValue = maxBreathBrightness

(* C14 amended: from the end of the arming pass onward fadeValue and       *)
(* fadeAmount keep the values they had at the end of that pass (fadeValue  *)
(* is whatever the animation had reached, not maxBreathBrightness); only   *)
(* the duty on LED_READY is maxBreathBrightness.                           *)
C14_FrozenWhereItWas ==
    /\ [](systemReady => ledReady = maxBreathBrightness /\ fadeValue \in 0..50)
    /\ [][systemReady => (fadeValue' = fadeValue /\ fadeAmount' = fadeAmount)]_vars

(* a later ARMED pass with the brightness variable still in mid-wave *)
C14_Witness ==
    lastBranch = "unlocked" /\ fadeValue = 10 /\ fadeAmount = -2 /\ ledReady = 50

(* C15: in a pass that begins LOCKED and reads the clock at `now'', if the *)
(* clock is at least fadeDelay (80) past prevFadeMillis, however far, the  *)
(* brightness is stepped once by fadeAmount and prevFadeMillis becomes the *)
(* clock reading; otherwise fadeValue, fadeAmount and prevFadeMillis are   *)
(* unchanged.                                                              *)
C15_CoalescedTimer ==
    [][(~systemReady /\ lastBranch' = "locked") =>
         IF now' - prevFadeMillis >= 80
         THEN /\ fadeValue' = fadeValue + fadeAmount
              /\ prevFadeMillis' = now'
         ELSE /\ fadeValue' = fadeValue
              /\ fadeAmount' = fadeAmount
              /\ prevFadeMillis' = prevFadeMillis]_vars

(* the second update, 200 ms after the first: one step, not two *)
C15_Witness ==
    /\ lastBranch = "locked" /\ fadeUpdated
    /\ now = 1240 /\ prevFadeMillis = 1240 /\ fadeValue = 4

(* C18: at the end of the arming pass the motor duty is 0, both direction  *)
(* lines are LOW and relay and heater indicator are OFF; a nonzero duty or *)
(* a HIGH direction line is only ever written by a pass that began ARMED.  *)
C18_NoActuationWhenArming ==
    /\ [](JustArmed =>
            /\ motorEnb = 0 /\ motorIn3 = LOW /\ motorIn4 = LOW
            /\ relayPin = LOW /\ heaterLed = LOW)
    /\ [][(motorEnb' # 0 \/ motorIn3' = HIGH \/ motorIn4' = HIGH)
            => systemReady]_vars

(* the arming pass with a reading whose duty would be nonzero *)
C18_Witness ==
    JustArmed /\ potVal = 19 /\ motorPWM = 4 /\ motorEnb = 0 /\ motorIn3 = LOW

(* C19: fadeAmount is +2 or -2 in every state; fadeValue = 0 goes with     *)
(* fadeAmount = +2 and fadeValue = maxBreathBrightness with fadeAmount =   *)
(* -2; so an update that starts at a bound lands strictly inside.          *)
C19_StepNeverStuck ==
    /\ [](/\ fadeAmount \in {2, -2}
          /\ (fadeValue = 0 => fadeAmount = 2)
          /\ (fadeValue = 50 => fadeAmount = -2))
    /\ [][(fadeUpdated' /\ fadeValue \in {0, 50}) => fadeValue' \in 1..49]_vars

(* the update that reaches the upper bound and turns the step around *)
C19_Witness ==
    ~systemReady /\ fadeUpdated /\ fadeValue = 50 /\ fadeAmount = -2
(* C20: in every run that stays LOCKED for ever while loop() keeps being   *)
(* called and the clock keeps advancing, fadeValue is maxBreathBrightness  *)
(* infinitely often and 0 infinitely often.                                *)
C20_BreathingNeverSettles ==
    ([]~systemReady) => ([]<>(fadeValue = 50) /\ []<>(fadeValue = 0))

(* the upper bound reached, still LOCKED, after the counter has wrapped *)
C20_Witness ==
    /\ ~systemReady /\ lastBranch = "locked" /\ fadeUpdated
    /\ fadeValue = 50 /\ now < SetupDelay
(* the power outputs that the pass in progress (or just ended) leaves *)
PassTarget ==
    IF lastBranch = "unlocked"
    THEN [in3 |-> HIGH, in4 |-> LOW, enb |-> motorPWM,
          relay |-> IF roomTempMock < targetTemp THEN HIGH ELSE LOW,
          heater |-> IF roomTempMock < targetTemp THEN HIGH ELSE LOW]
    ELSE [relay |-> LOW, heater |-> LOW, enb |-> 0, in3 |-> LOW, in4 |-> LOW]

(* C16 as stated: at every point, between the pin writes of a pass         *)
(* included, the five power outputs are either all as the previous pass    *)
(* left them or all as the current pass leaves them, never a mixture.      *)
C16_Original == Outputs = prevOut \/ Outputs = PassTarget

(* C16 amended: between passes the five outputs are all as the pass that   *)
(* just ended leaves them.  Within a pass they are written one by one, in  *)
(* the order relay, heater indicator, duty, IN3, IN4 when LOCKED and IN3,  *)
(* IN4, duty, relay, heater indicator when ARMED: the pins already written *)
(* hold this pass's values and the others still hold the previous pass's.  *)
C16_PinByPin ==
    LET order == IF lastBranch = "unlocked"
                 THEN <<"in3", "in4", "enb", "relay", "heater">>
                 ELSE <<"relay", "heater", "enb", "in3", "in4">>
    IN  \A i \in 1..5 :
            Outputs[order[i]] = IF pc = 0 \/ i < pc
                                THEN PassTarget[order[i]]
                                ELSE prevOut[order[i]]

(* the first ARMED pass between lines 167 and 168: forward direction of    *)
(* this pass together with the duty 0 left by the arming pass              *)
C16_Witness ==
    /\ pc = 3 /\ lastBranch = "unlocked"
    /\ motorIn3 = HIGH /\ prevOut.in3 = LOW
    /\ motorEnb = 0 /\ motorPWM = 255
(* the two runs took their pass with the same pot and button readings and, *)
(* where the pass reads the clock, the same clock reading                  *)
SameReadings ==
    /\ other'.potVal = potVal'
    /\ other'.buttonState = buttonState'
    /\ (~systemReady => other'.now = now')

(* the two runs leave the pass with the same ArmState and BreathPhase and  *)
(* with the same values on the six output pins                             *)
SameOutcome ==
    /\ other'.systemReady = systemReady'
    /\ other'.fadeValue = fadeValue'
    /\ other'.fadeAmount = fadeAmount'
    /\ other'.ledReady = ledReady'
    /\ other'.out = Outputs'

(* C17 as stated: two runs that enter a pass with the same ArmState, the   *)
(* same BreathPhase (fadeValue and fadeAmount) and the same readings leave *)
(* it with the same ArmState, BreathPhase and outputs.                     *)
C17_Original ==
    [][(/\ other.systemReady = systemReady
        /\ other.fadeValue = fadeValue
        /\ other.fadeAmount = fadeAmount
        /\ SameReadings) => SameOutcome]_vars

(* C17 amended: prevFadeMillis is a third piece of persistent state.  Two  *)
(* runs that enter a pass with the same ArmState, BreathPhase and          *)
(* prevFadeMillis and the same readings leave it with the same ArmState,   *)
(* BreathPhase, prevFadeMillis and outputs, whatever else differs.         *)
C17_FunctionOfStateAndInputs ==
    [][(/\ other.systemReady = systemReady
        /\ other.fadeValue = fadeValue
        /\ other.fadeAmount = fadeAmount
        /\ other.prevFadeMillis = prevFadeMillis
        /\ SameReadings)
       => (SameOutcome /\ other'.prevFadeMillis = prevFadeMillis')]_vars

(* two ARMED runs that entered the pass with different duties on the motor *)
(* pin, read the same pot value and both wrote its duty                    *)
C17_Witness ==
    /\ other.sameEntry /\ other.pastDiffered
    /\ lastBranch = "unlocked" /\ other.systemReady
    /\ potVal = RAW_MAX /\ motorEnb = 255 /\ other.out.enb = 255
====
